---- MODULE Spec2Model ----
(***************************************************************************)
(* Model of generate_changelog.py: the changelog pipeline                  *)
(*   check credential -> open/clone repo -> list commits -> per commit:    *)
(*   diff, truncate, summarize (or placeholder) -> write the file once.    *)
(*                                                                         *)
(* Text is modelled as a sequence of tokens (strings).  A diff is a        *)
(* sequence of characters.  In literal tokens "BQ" stands for the backtick *)
(* character, "-" for the en dash and "(!)" for the warning sign of the    *)
(* source's literals, and "..." for the one-character ellipsis.            *)
(***************************************************************************)
EXTENDS Integers, Sequences, FiniteSets, TLC

\* ---------------------------------------------------------------- bounds
NCommits == 3        \* commits on the branch: ids 1 (root) .. NCommits (tip)
MaxDiffLen == 2      \* longest raw diff text returned by git diff-tree
MaxBudget == 1       \* largest --per-commit-budget tried (beside -1 and 0)
MaxLimit == 2        \* largest --max-commits tried (beside 0 and 1)
MaxFiles == 32       \* longest changed-file list rendered by summarize
HexLen == 8          \* length of a full hexsha (40 in git)

\* ------------------------------------------------------ program constants
ShortShaLen == 7     \* c.hexsha[:7]
FileCap == 30        \* files[:30]
DaySeconds == 86400  \* strftime("%Y-%m-%d") keeps the UTC day only

\* ------------------------------------------------------------ text helpers
Whitespace == {" ", "\n", "\t"}

RECURSIVE LStrip(_)
LStrip(s) == IF s # <<>> /\ Head(s) \in Whitespace THEN LStrip(Tail(s)) ELSE s

RECURSIVE RStrip(_)
RStrip(s) ==
    IF s # <<>> /\ s[Len(s)] \in Whitespace
    THEN RStrip(SubSeq(s, 1, Len(s) - 1))
    ELSE s

\* str.strip()
Strip(s) == RStrip(LStrip(s))

Min(a, b) == IF a < b THEN a ELSE b
Max(a, b) == IF a > b THEN a ELSE b

\* Python's s[:n] for any integer n: a negative n counts from the end.
PySliceTo(s, n) ==
    IF n >= 0
    THEN SubSeq(s, 1, Min(n, Len(s)))
    ELSE SubSeq(s, 1, Max(0, Len(s) + n))

\* list.reverse()
Reverse(s) == [k \in 1..Len(s) |-> s[Len(s) + 1 - k]]

\* sep.join(parts), parts a sequence of token sequences
RECURSIVE Join(_, _)
Join(sep, parts) ==
    IF parts = <<>> THEN <<>>
    ELSE IF Len(parts) = 1 THEN parts[1]
    ELSE parts[1] \o <<sep>> \o Join(sep, Tail(parts))

\* sorted(S) for a finite set of integers
RECURSIVE Sorted(_)
Sorted(S) ==
    IF S = {} THEN <<>>
    ELSE LET m == CHOOSE x \in S : \A y \in S : x <= y
         IN  <<m>> \o Sorted(S \ {m})

\* -------------------------------------------------- the repository's commits
Commits == 1..NCommits

\* len(c.parents): the root has none, every third commit is a merge
parents(c) == IF c = 1 THEN 0 ELSE IF c % 3 = 0 THEN 2 ELSE 1

\* c.committed_date (seconds): committer clocks are not monotonic along the
\* history (odd commits carry a date two days ahead)
committed_date(c) == DaySeconds * (c + 2 * (c % 2)) + c

\* c.hexsha: commits c and c+2 agree on their first seven characters
hexsha(c) ==
    [k \in 1..HexLen |->
        IF k < ShortShaLen THEN "a"
        ELSE IF k = ShortShaLen THEN ToString(c % 2)
        ELSE ToString(c)]

\* c.author.name
author(c) == IF c % 2 = 0 THEN "alice" ELSE "bob"

\* commit_datetime_utc(c).strftime("%Y-%m-%d")
date_utc(c) == "day" \o ToString(committed_date(c) \div DaySeconds)

\* sha = c.hexsha[:7]
short_sha(c) == PySliceTo(hexsha(c), ShortShaLen)

\* repo.iter_commits(branch, since=, until=): newest -> oldest along the
\* history, restricted by git to the date range: any subsequence of
\* <<NCommits, ..., 1>>
Walks == {Reverse(Sorted(S)) : S \in SUBSET Commits}

\* ------------------------------------------------------------ list_commits
\* slip: the count limit is never applied
list_commits_NoLimit(W, max_commits) == Reverse(W)

\* slip: reversed before truncating, which keeps the oldest N
list_commits_OldestFirstCut(W, max_commits) ==
    IF max_commits # 0 /\ max_commits > 0
    THEN PySliceTo(Reverse(W), max_commits)
    ELSE Reverse(W)

list_commits(W, max_commits) ==
    LET commits == IF max_commits # 0 /\ max_commits > 0
                   THEN PySliceTo(W, max_commits)
                   ELSE W
    IN  Reverse(commits)

\* ------------------------------------------------------------ changed_files
\* commit.stats.files.keys(): a set of paths (numbered), or an exception
FileResults ==
    {[ok |-> FALSE, names |-> {}], [ok |-> TRUE, names |-> {}],
     [ok |-> TRUE, names |-> {1}]}

changed_files(fr) == IF fr.ok THEN Sorted(fr.names) ELSE <<>>

\* what changed_files can return
FileListsOfCommit == {changed_files(fr) : fr \in FileResults}

\* ---------------------------------------------------------------- summarize
FileName(n) == "f" \o ToString(n)

\* slip: the ellipsis marker already at exactly FileCap entries
files_display_MarkerAtCap(files) ==
    Join(", ", [k \in 1..Len(PySliceTo(files, FileCap)) |-> <<FileName(files[k])>>])
        \o (IF Len(files) >= FileCap THEN <<", ...">> ELSE <<>>)

files_display(files) ==
    Join(", ", [k \in 1..Len(PySliceTo(files, FileCap)) |-> <<FileName(files[k])>>])
        \o (IF Len(files) > FileCap THEN <<", ...">> ELSE <<>>)

\* USER_PROMPT_TMPL.format(...)
user_prompt(sha, auth, date, files, diff) ==
    <<"Commit: ">> \o sha
        \o <<"\nAuthor: ", auth, "\nDate (UTC): ", date,
             "\nChanged files (", ToString(Len(files)), "): ">>
        \o (IF files_display(files) # <<>> THEN files_display(files) ELSE <<"(none)">>)
        \o <<"\n\nDiff (may be truncated):\nBQBQBQ\n">> \o diff \o <<"\nBQBQBQ\n">>

\* resp.choices[0].message.content of the stubbed endpoint, per commit
content(c) == <<" ", "summary", ToString(c), "\n">>

\* ------------------------------------------------------------ main: helpers
DiffTexts == UNION {[1..n -> {" ", "+"}] : n \in 0..MaxDiffLen}

GitError == "git: bad object"
ApiError == "api: timeout"

\* slip: the placeholder leaves the error text out
ErrorSummary_NoErrorText(sha, e) == <<"(!) Error summarizing commit ">> \o sha

ErrorSummary(sha, e) == <<"(!) Error summarizing commit ">> \o sha \o <<": ", e>>

Heading(c) ==
    <<"## ", date_utc(c), " - BQ">> \o short_sha(c) \o <<"BQ by ", author(c)>>

Entry(c, summary) == <<Heading(c), summary, <<>>>>

\* slip: every commit that has a parent counts as a merge
MergeSkipped_AnyParent(c, include_merges) == parents(c) > 0 /\ ~include_merges

MergeSkipped(c, include_merges) == parents(c) > 1 /\ ~include_merges

TruncatePatch(patch, budget) == PySliceTo(patch, budget)

\* slip: "or" for "and"
NothingToSummarize_Either(patch, files) == Strip(patch) = <<>> \/ files = <<>>

NothingToSummarize(patch, files) == Strip(patch) = <<>> /\ files = <<>>

\* ---------------------------------------------------------------- state
VARIABLES
    pc,         \* position of main
    api_key,    \* os.getenv("OPENAI_API_KEY")
    args,       \* parse_args()
    repo,       \* what ensure_repo did
    walk,       \* list(repo.iter_commits(...))
    commits,    \* list_commits(...)
    i,          \* index of the commit the for loop is at
    out_lines,  \* out_lines
    file,       \* content of args.output
    writes,     \* number of writes to args.output
    stderr,     \* lines printed to stderr
    exit_code,  \* process exit status, -1 while running
    ncalls,     \* number of summarize calls made
    summary,    \* main's local summary, as last assigned
    prompt,     \* summarize's local user_prompt
    log,        \* per finished iteration: the commit and what happened
    last        \* inputs and call of the latest iteration

vars == <<pc, api_key, args, repo, walk, commits, i, out_lines, file, writes,
          stderr, exit_code, ncalls, summary, prompt, log, last>>

NoLast ==
    [c |-> 0, kind |-> "none", files |-> <<>>, raw |-> <<>>, patch |-> <<>>,
     called |-> FALSE, call_diff |-> <<>>, call_files |-> <<>>,
     lines_before |-> 0, calls_before |-> 0]

Keys == {[set |-> FALSE, val |-> ""], [set |-> TRUE, val |-> ""],
         [set |-> TRUE, val |-> "sk-1"]}

Args ==
    [max_commits : {0, 1, MaxLimit},
     per_commit_budget : {-1, 0, MaxBudget},
     include_merges : BOOLEAN]

Init ==
    /\ pc = "main"
    /\ api_key \in Keys
    /\ args \in Args
    /\ repo = "none"
    /\ walk = <<>>
    /\ commits = <<>>
    /\ i = 0
    /\ out_lines = <<>>
    /\ file = <<>>
    /\ writes = 0
    /\ stderr = <<>>
    /\ exit_code = -1
    /\ ncalls = 0
    /\ summary = <<>>
    /\ prompt = <<>>
    /\ log = <<>>
    /\ last = NoLast

\* slip: only an unset variable counts as missing (`api_key is None`)
Falsy_OnlyUnset(k) == ~k.set

\* `not api_key`
Falsy(k) == ~k.set \/ k.val = ""

\* main, lines 114-118: no credential -> diagnostic, sys.exit(1)
MissingKey ==
    /\ pc = "main"
    /\ Falsy(api_key)
    /\ stderr' = Append(stderr, "ERROR: set OPENAI_API_KEY")
    /\ exit_code' = 1
    /\ pc' = "exited"
    /\ UNCHANGED <<api_key, args, repo, walk, commits, i, out_lines, file,
                   writes, ncalls, summary, prompt, log, last>>

\* main, lines 114-120: credential present -> client constructed
HaveKey ==
    /\ pc = "main"
    /\ ~Falsy(api_key)
    /\ pc' = "ensure_repo"
    /\ UNCHANGED <<api_key, args, repo, walk, commits, i, out_lines, file,
                   writes, stderr, exit_code, ncalls, summary, prompt, log, last>>

\* ensure_repo: open + checkout a local repository, or clone a remote one
EnsureRepo ==
    /\ pc = "ensure_repo"
    /\ \E how \in {"opened", "cloned"} : repo' = how
    /\ pc' = "list_commits"
    /\ UNCHANGED <<api_key, args, walk, commits, i, out_lines, file, writes,
                   stderr, exit_code, ncalls, summary, prompt, log, last>>

\* ensure_repo raises (not a repository, branch or remote unreachable):
\* the exception propagates out of main
EnsureRepoFails ==
    /\ pc = "ensure_repo"
    /\ stderr' = Append(stderr, "Traceback")
    /\ exit_code' = 1
    /\ pc' = "exited"
    /\ UNCHANGED <<api_key, args, repo, walk, commits, i, out_lines, file,
                   writes, ncalls, summary, prompt, log, last>>

\* main, lines 122-124
ListCommits ==
    /\ pc = "list_commits"
    /\ \E W \in Walks :
        /\ walk' = W
        /\ commits' = list_commits(W, args.max_commits)
    /\ out_lines' = <<<<"# Changelog">>, <<>>>>
    /\ i' = 1
    /\ pc' = "loop"
    /\ UNCHANGED <<api_key, args, repo, file, writes, stderr, exit_code,
                   ncalls, summary, prompt, log, last>>

InLoop == pc = "loop" /\ i <= Len(commits)

Begin(c) ==
    [NoLast EXCEPT !.c = c, !.lines_before = Len(out_lines),
                   !.calls_before = ncalls]

\* lines 126-128: a merge commit is skipped
SkipMerge ==
    /\ InLoop
    /\ MergeSkipped(commits[i], args.include_merges)
    /\ last' = [Begin(commits[i]) EXCEPT !.kind = "merge_skip"]
    /\ log' = Append(log, [c |-> commits[i], kind |-> "merge_skip"])
    /\ i' = i + 1
    /\ UNCHANGED <<pc, api_key, args, repo, walk, commits, out_lines, file,
                   writes, stderr, exit_code, ncalls, summary, prompt>>

\* slip: the diff is extracted outside the try block, so its exception
\* leaves main
DiffFails_Propagates ==
    /\ InLoop
    /\ ~MergeSkipped(commits[i], args.include_merges)
    /\ stderr' = Append(stderr, "Traceback")
    /\ exit_code' = 1
    /\ pc' = "exited"
    /\ UNCHANGED <<api_key, args, repo, walk, commits, i, out_lines, file,
                   writes, ncalls, summary, prompt, log, last>>

\* lines 130-141, 147-152: diff_text_parent_to_commit raises
DiffFails ==
    /\ InLoop
    /\ ~MergeSkipped(commits[i], args.include_merges)
    /\ \E files \in FileListsOfCommit :
        LET c == commits[i]
            text == ErrorSummary(short_sha(c), GitError)
        IN  /\ summary' = text
            /\ out_lines' = out_lines \o Entry(c, text)
            /\ last' = [Begin(c) EXCEPT !.kind = "diff_err", !.files = files]
            /\ log' = Append(log, [c |-> c, kind |-> "diff_err"])
    /\ i' = i + 1
    /\ UNCHANGED <<pc, api_key, args, repo, walk, commits, file, writes,
                   stderr, exit_code, ncalls, prompt>>

\* lines 130-144: nothing to summarize
SkipEmpty ==
    /\ InLoop
    /\ ~MergeSkipped(commits[i], args.include_merges)
    /\ \E files \in FileListsOfCommit, raw \in DiffTexts :
        LET c == commits[i]
            patch == TruncatePatch(raw, args.per_commit_budget)
        IN  /\ NothingToSummarize(patch, files)
            /\ last' = [Begin(c) EXCEPT !.kind = "empty_skip",
                                        !.files = files, !.raw = raw,
                                        !.patch = patch]
            /\ log' = Append(log, [c |-> c, kind |-> "empty_skip"])
    /\ i' = i + 1
    /\ UNCHANGED <<pc, api_key, args, repo, walk, commits, out_lines, file,
                   writes, stderr, exit_code, ncalls, summary, prompt>>

\* lines 130-152: summarize is called; it returns or raises
Summarize ==
    /\ InLoop
    /\ ~MergeSkipped(commits[i], args.include_merges)
    /\ \E files \in FileListsOfCommit, raw \in DiffTexts, api_ok \in BOOLEAN :
        LET c == commits[i]
            patch == TruncatePatch(raw, args.per_commit_budget)
            text == IF api_ok THEN Strip(content(c))
                    ELSE ErrorSummary(short_sha(c), ApiError)
        IN  /\ ~NothingToSummarize(patch, files)
            /\ summary' = text
            /\ out_lines' = out_lines \o Entry(c, text)
            /\ last' = [Begin(c) EXCEPT
                            !.kind = IF api_ok THEN "ok" ELSE "sum_err",
                            !.files = files, !.raw = raw, !.patch = patch,
                            !.called = TRUE, !.call_diff = patch,
                            !.call_files = files]
            /\ log' = Append(log, [c |-> c,
                                   kind |-> IF api_ok THEN "ok" ELSE "sum_err"])
    /\ ncalls' = ncalls + 1
    /\ i' = i + 1
    /\ UNCHANGED <<pc, api_key, args, repo, walk, commits, file, writes,
                   stderr, exit_code, prompt>>

\* lines 154-157: the loop is over; write the document
WriteFile ==
    /\ pc = "loop"
    /\ i > Len(commits)
    /\ file' = Join("\n", out_lines)
    /\ writes' = writes + 1
    /\ exit_code' = 0
    /\ pc' = "done"
    /\ UNCHANGED <<api_key, args, repo, walk, commits, i, out_lines, stderr,
                   ncalls, summary, prompt, log, last>>

Next ==
    \/ MissingKey
    \/ HaveKey
    \/ EnsureRepo
    \/ EnsureRepoFails
    \/ ListCommits
    \/ SkipMerge
    \/ DiffFails
    \/ SkipEmpty
    \/ Summarize
    \/ WriteFile

Spec == Init /\ [][Next]_vars

\* ------------------------------------------------ summarize on its own
\* sorted changed-file lists of every length up to MaxFiles
FileLists == {[k \in 1..n |-> k + off] : n \in 0..MaxFiles, off \in {0, 5}}

\* main is about to call summarize for the only commit of the run
InitSummarize ==
    /\ pc = "summarize"
    /\ api_key = [set |-> TRUE, val |-> "sk-1"]
    /\ args = [max_commits |-> 0, per_commit_budget |-> MaxBudget,
               include_merges |-> TRUE]
    /\ repo = "cloned"
    /\ \E c \in Commits, files \in FileLists, raw \in DiffTexts :
        LET patch == TruncatePatch(raw, MaxBudget)
        IN  /\ ~NothingToSummarize(patch, files)
            /\ walk = <<c>>
            /\ commits = <<c>>
            /\ last = [NoLast EXCEPT !.c = c, !.files = files, !.raw = raw,
                                     !.patch = patch, !.lines_before = 2]
    /\ i = 1
    /\ out_lines = <<<<"# Changelog">>, <<>>>>
    /\ file = <<>>
    /\ writes = 0
    /\ stderr = <<>>
    /\ exit_code = -1
    /\ ncalls = 0
    /\ summary = <<>>
    /\ prompt = <<>>
    /\ log = <<>>

\* summarize, lines 93-101, and the call of lines 102-110
SendPrompt ==
    /\ pc = "summarize"
    /\ prompt' = user_prompt(short_sha(last.c), author(last.c),
                             date_utc(last.c), last.files, last.patch)
    /\ ncalls' = ncalls + 1
    /\ last' = [last EXCEPT !.called = TRUE, !.call_diff = last.patch,
                            !.call_files = last.files]

\* summarize, line 111: the endpoint answers
SummarizeReturns ==
    /\ SendPrompt
    /\ summary' = Strip(content(last.c))
    /\ pc' = "summarized"
    /\ UNCHANGED <<api_key, args, repo, walk, commits, i, out_lines, file,
                   writes, stderr, exit_code, log>>

\* summarize, lines 102-110: the endpoint call raises
SummarizeRaises ==
    /\ SendPrompt
    /\ pc' = "raised"
    /\ UNCHANGED <<api_key, args, repo, walk, commits, i, out_lines, file,
                   writes, stderr, exit_code, summary, log>>

NextSummarize ==
    \/ SummarizeReturns
    \/ SummarizeRaises

SpecSummarize == InitSummarize /\ [][NextSummarize]_vars

\* ------------------------------------------------------ reading a document
IsHeading(line) == Len(line) > 0 /\ line[1] = "## "

Headings(lines) == SelectSeq(lines, IsHeading)

IsKept(r) == r.kind \notin {"merge_skip", "empty_skip"}

IsFailed(r) == r.kind \in {"diff_err", "sum_err"}

Kept(l) == SelectSeq(l, IsKept)

ContainsSeq(line, sub) ==
    \E k \in 0..(Len(line) - Len(sub)) : SubSeq(line, k + 1, k + Len(sub)) = sub

HasToken(line, t) == \E k \in 1..Len(line) : line[k] = t

Blank(text) == \A k \in 1..Len(text) : text[k] \in Whitespace

RECURSIVE SplitLines(_)
SplitLines(doc) ==
    IF \A k \in 1..Len(doc) : doc[k] # "\n" THEN <<doc>>
    ELSE LET n == CHOOSE k \in 1..Len(doc) :
                    doc[k] = "\n" /\ \A j \in 1..(k - 1) : doc[j] # "\n"
         IN  <<SubSeq(doc, 1, n - 1)>> \o SplitLines(SubSeq(doc, n + 1, Len(doc)))

IndexOf(line, t) == CHOOSE k \in 1..Len(line) : line[k] = t

\* ------------------------------------------------------------------ claims

\* C1: when the diff extraction or the summarization raises for a commit,
\* the written document still holds that commit's level-2 heading followed
\* by a placeholder line with the 7-character short hash and the error
\* text; every other commit's entry is the one of a failure-free run.
C1_FailureKeepsEntry ==
    pc = "done" =>
        LET doc == SplitLines(file)
            kept == Kept(log)
        IN  /\ Len(doc) = 2 + 3 * Len(kept)
            /\ \A k \in 1..Len(kept) :
                LET r == kept[k]
                    body == doc[3 * k + 1]
                IN  /\ doc[3 * k] = Heading(r.c)
                    /\ doc[3 * k + 2] = <<>>
                    /\ r.kind = "ok" => body = Strip(content(r.c))
                    /\ IsFailed(r) =>
                        /\ ContainsSeq(body, SubSeq(hexsha(r.c), 1, 7))
                        /\ ~ContainsSeq(body, hexsha(r.c))
                        /\ r.kind = "diff_err" => HasToken(body, GitError)
                        /\ r.kind = "sum_err" => HasToken(body, ApiError)

C1_Witness ==
    /\ pc = "done"
    /\ \E j, k \in 1..Len(log) :
        /\ j < k
        /\ log[j].kind = "sum_err"
        /\ log[k].kind = "ok"
    /\ \E j, k \in 1..Len(log) :
        /\ j < k
        /\ log[j].kind = "ok"
        /\ log[k].kind = "diff_err"

\* C2: with --max-commits N > 0 the document holds at most N commit entries,
\* whatever the walk, the merge setting and the failures.
C2_AtMostNEntries ==
    args.max_commits > 0 =>
        /\ Len(Headings(out_lines)) <= args.max_commits
        /\ pc = "done" => Len(Headings(SplitLines(file))) <= args.max_commits

C2_Witness ==
    /\ pc = "done"
    /\ args.max_commits > 0
    /\ Len(walk) > args.max_commits
    /\ Len(Headings(SplitLines(file))) = args.max_commits

\* C3: list_commits returns the first N commits of the newest-first walk,
\* reversed (all of the walk, reversed, when N = 0).
C3_ListCommits ==
    pc \in {"loop", "done"} =>
        LET N == args.max_commits
            n == IF N > 0 /\ N < Len(walk) THEN N ELSE Len(walk)
        IN  /\ Len(commits) = n
            /\ \A k \in 1..n : commits[k] = walk[n + 1 - k]

C3_Witness ==
    /\ pc = "loop"
    /\ args.max_commits > 1
    /\ Len(walk) > args.max_commits
    /\ commits = <<walk[2], walk[1]>>

\* C4: the headings of the document are one per commit not skipped, in the
\* order of the commit list, and an earlier heading never belongs to a
\* commit with a later commit date.
C4_HeadingsChronological ==
    LET kept == Kept(log)
        hs == Headings(out_lines)
    IN  /\ Len(hs) = Len(kept)
        /\ \A k \in 1..Len(kept) : hs[k] = Heading(kept[k].c)
        /\ \A j, k \in 1..Len(kept) :
            j < k => committed_date(kept[j].c) <= committed_date(kept[k].c)

\* C5: for every budget B the diff passed to summarize has at most B
\* characters; a longer raw diff is cut to its first B characters, a diff of
\* at most B characters is passed unchanged.
C5_DiffWithinBudget ==
    last.called =>
        LET B == args.per_commit_budget
        IN  /\ Len(last.call_diff) <= B
            /\ Len(last.raw) > B =>
                /\ Len(last.call_diff) = B
                /\ last.call_diff = SubSeq(last.raw, 1, B)
            /\ Len(last.raw) <= B => last.call_diff = last.raw

\* C6: the output file is written exactly once per run that passed setup,
\* only after every selected commit was processed; per-commit failures never
\* end the run before that write.
C6_SingleFinalWrite ==
    /\ writes <= 1
    /\ writes = 1 <=> pc = "done"
    /\ pc = "done" =>
        /\ Len(log) = Len(commits)
        /\ \A k \in 1..Len(commits) : log[k].c = commits[k]
        /\ file = Join("\n", out_lines)
        /\ exit_code = 0
    /\ pc # "done" => file = <<>>
    /\ pc = "exited" => repo = "none" /\ log = <<>>
    /\ (pc = "loop" /\ i <= Len(commits)) =>
        ENABLED (SkipMerge \/ DiffFails \/ SkipEmpty \/ Summarize)

C6_Witness ==
    /\ pc = "done"
    /\ writes = 1
    /\ Len(log) > 1
    /\ \E k \in 1..Len(log) : log[k].kind = "diff_err"
    /\ \E k \in 1..Len(log) : log[k].kind = "sum_err"

\* C7: a commit with two or more parents gets no heading, no summary and no
\* summarize call unless merges are included; with merges included it is
\* processed like any other commit; a commit with at most one parent is
\* never skipped as a merge.
C7_MergeSkip ==
    last.c # 0 =>
        LET merge == parents(last.c) >= 2
            grown == Len(out_lines) - last.lines_before
        IN  /\ (merge /\ ~args.include_merges) =>
                /\ last.kind = "merge_skip"
                /\ grown = 0
                /\ ncalls = last.calls_before
                /\ ~last.called
            /\ (~merge \/ args.include_merges) =>
                /\ last.kind # "merge_skip"
                /\ last.kind = "empty_skip" \/ grown = 3

C7_Witness ==
    /\ last.kind = "merge_skip"
    /\ Len(log) > 1
    /\ Len(out_lines) > 2

C9_MissingKeyAborts ==
    (~api_key.set \/ api_key.val = "") =>
        /\ pc \in {"main", "exited"}
        /\ repo = "none"
        /\ commits = <<>>
        /\ log = <<>>
        /\ ncalls = 0
        /\ writes = 0
        /\ file = <<>>
        /\ pc = "exited" => exit_code > 0 /\ stderr # <<>>

C9_Witness ==
    /\ pc = "exited"
    /\ api_key.set
    /\ api_key.val = ""
    /\ exit_code = 1

\* C10: summarize renders the first 30 file names, comma separated, then an
\* ellipsis marker when there are more than 30; all names and no marker for
\* 1 to 30; "(none)" for an empty list; the count shown is the full length.
C10_FileListCap ==
    pc \in {"summarized", "raised"} =>
        LET files == last.call_files
            n == Len(files)
            a == IndexOf(prompt, "): ")
            b == IndexOf(prompt, "\n\nDiff (may be truncated):\nBQBQBQ\n")
            shown == SubSeq(prompt, a + 1, b - 1)
            m == IF n > 30 THEN 30 ELSE n
        IN  /\ prompt[a - 1] = ToString(n)
            /\ n = 0 => shown = <<"(none)">>
            /\ n > 0 =>
                /\ Len(shown) = 2 * m - 1 + (IF n > 30 THEN 1 ELSE 0)
                /\ \A k \in 1..m : shown[2 * k - 1] = FileName(files[k])
                /\ \A k \in 1..(m - 1) : shown[2 * k] = ", "
                /\ n > 30 => shown[2 * m] = ", ..."
                /\ n <= 30 => ~HasToken(shown, ", ...")

C10_Witness ==
    /\ pc = "summarized"
    /\ Len(last.call_files) > 30
    /\ HasToken(prompt, ", ...")

====
